---------------------------- MODULE Spec2Model ----------------------------
(***************************************************************************)
(* A model of nlup/perceptron.py: the LazyWeight accumulator, the binary   *)
(* and multiclass perceptrons, their averaged variants, the order-0 and    *)
(* greedy sequence decoders, and the training loop Classifier.fit.         *)
(*                                                                         *)
(* Python values are modelled as follows.  A bool or any other binary gold *)
(* label is a string ("True", "False", or another string for a label that  *)
(* is not a bool); None is the string "None".  A dict is a function whose  *)
(* DOMAIN is the dict's key set, so that a key a defaultdict materialises  *)
(* on a read shows up in the model.  An int or float weight of a           *)
(* LazyWeight is an exact fraction [n, d] in lowest terms (d > 0): the     *)
(* true division of average() is then a real division, not the identity.   *)
(* An exception is the string field err of an operation's outcome.         *)
(***************************************************************************)
EXTENDS Integers, Sequences, FiniteSets, TLC

VARIABLES
    lw,       \* a LazyWeight object
    traj,     \* the per-tick simulator: traj[k] is the value held at tick k
    lwcalls,  \* number of LazyWeight.update calls made so far
    lwret,    \* outcome of LazyWeight.average: "none" (not called), "ok" or an exception
    lwT,      \* the argument of the last LazyWeight.average call
    m,        \* a classifier object: its class and its attributes
    last,     \* the last method call on m: its arguments, the object before it, its outcome
    calls,    \* number of method calls on m other than finalize
    fin,      \* number of finalize calls on m
    data,     \* Classifier.fit: the list of (x, y) pairs
    epochs,   \* Classifier.fit: the epochs argument
    epoch,    \* Classifier.fit: the epochs started so far
    idx,      \* Classifier.fit: position in data of the next instance
    fitted,   \* Classifier.fit: number of fit_one calls that have returned
    pc,       \* Classifier.fit: "epoch", "instance", "done" or "raised"
    plain,    \* a BinaryPerceptron given the same fit_one calls as m
    plast     \* the last method call on plain

lazyvars == <<lw, traj, lwcalls, lwret, lwT>>
modelvars == <<m, last, calls, fin>>
fitvars == <<data, epochs, epoch, idx, fitted, pc>>
pairvars == <<plain, plast>>
vars == <<lw, traj, lwcalls, lwret, lwT, m, last, calls, fin,
          data, epochs, epoch, idx, fitted, pc, plain, plast>>

---------------------------------------------------------------------------
(* Bounds *)

MaxTime == 4        \* largest logical time passed to a LazyWeight
MaxUpdates == 3     \* number of LazyWeight.update calls in a run
MaxCalls == 2       \* number of method calls on a classifier, finalize apart
MaxFinalize == 2    \* number of finalize calls on a classifier
MaxLen == 2         \* number of tokens in a sequence
MaxData == 2        \* number of instances in a training set
MaxEpochs == 2      \* largest epochs argument of fit

Deltas == {-2, -1, 1, 2}

---------------------------------------------------------------------------
(* Numbers: Python's int and float values as exact fractions *)

Abs(i) == IF i < 0 THEN -i ELSE i

RECURSIVE Gcd(_, _)
Gcd(a, b) == IF b = 0 THEN a ELSE Gcd(b, a % b)

\* the fraction n/d (d > 0) in lowest terms
Norm(n, d) ==
    LET g == Gcd(Abs(n), d)
    IN  [n |-> n \div g, d |-> d \div g]

\* default_factory(): int() is 0
Zero == [n |-> 0, d |-> 1]

\* a + b
Plus(a, b) == Norm(a.n * b.d + b.n * a.d, a.d * b.d)

\* k * a for an int k
Times(k, a) == Norm(k * a.n, a.d)

\* a / t for an int t > 0 (Python 3 true division)
TrueDiv(a, t) == Norm(a.n, a.d * t)

---------------------------------------------------------------------------
(* Features, labels and containers *)

Features == {"a", "b", "c"}

\* a feature that no call on the classifier ever passes
Unknown == "c"

\* gold labels of a binary model: the two bools and a value that is no bool
BinaryLabels == {"True", "False", "maybe"}

\* classes of a multiclass model; "None" is the default class of __init__
Classes == {"None", "N", "V"}

\* the elements of a sequence
Range(s) == {s[i] : i \in 1 .. Len(s)}

\* the orders in which a set S of at most n elements can be iterated
OrdersUpTo(S, n) ==
    {s \in UNION {[1 .. k -> S] : k \in 0 .. n} :
        \A i, j \in 1 .. Len(s) : i # j => s[i] # s[j]}

\* the orders in which the whole of S can be iterated
Orders(S) == {s \in OrdersUpTo(S, Cardinality(S)) : Range(s) = S}

\* d[k] of a defaultdict d with default value dflt, as a value
Get(d, k, dflt) == IF k \in DOMAIN d THEN d[k] ELSE dflt

\* d after d[k] = v
Put(d, k, v) == [j \in (DOMAIN d) \cup {k} |-> IF j = k THEN v ELSE d[j]]

\* bool(b) as a label
Bool(b) == IF b THEN "True" ELSE "False"

\* an operation's outcome: the object after it, what it returned, what it raised
Outcome(mm, ret, err) == [m |-> mm, ret |-> ret, err |-> err]

\* F(e), with e evaluated once: a local variable holding the value of e
Let(e, F(_)) == CHOOSE v \in {F(r) : r \in {e}} : TRUE

---------------------------------------------------------------------------
(* class LazyWeight *)

\* LazyWeight.__init__(default_factory=int, t=0)
LazyWeight == [timestamp |-> 0, weight |-> Zero, summed_weight |-> Zero]

\* get as it would be if it read the running sum
LazyWeight_get_summed(w) == w.summed_weight

\* LazyWeight.get
LazyWeight_get(w) == w.weight

\* _freshen as it would be without `self.timestamp = t`
LazyWeight_freshen_keepstamp(w, t) ==
    [w EXCEPT !.summed_weight = Plus(@, Times(t - w.timestamp, w.weight))]

\* LazyWeight._freshen(t)
LazyWeight_freshen(w, t) ==
    [w EXCEPT !.summed_weight = Plus(@, Times(t - w.timestamp, w.weight)),
              !.timestamp = t]

\* update as it would be with the value added before the sum is brought up
\* to date
LazyWeight_update_addfirst(w, value, t) ==
    LazyWeight_freshen([w EXCEPT !.weight = Plus(@, [n |-> value, d |-> 1])], t)

\* LazyWeight.update(value, t)
LazyWeight_update(w, value, t) ==
    LET f == LazyWeight_freshen(w, t)
    IN  [f EXCEPT !.weight = Plus(@, [n |-> value, d |-> 1])]

\* LazyWeight.average(t): the division raises ZeroDivisionError when t = 0,
\* after _freshen has run
LazyWeight_average(w, t) ==
    Let(LazyWeight_freshen(w, t), LAMBDA f :
        IF t = 0
        THEN [w |-> f, err |-> "ZeroDivisionError"]
        ELSE [w |-> [f EXCEPT !.weight = TrueDiv(f.summed_weight, t)],
              err |-> "none"])

---------------------------------------------------------------------------
(* class BinaryPerceptron *)

\* BinaryPerceptron.__init__: weights is a defaultdict(int); it stays one,
\* because finalize never rebinds it
BinaryPerceptron ==
    [cls |-> "BinaryPerceptron", weights |-> <<>>, classes |-> {},
     isdefaultdict |-> TRUE, time |-> 0, order |-> 0]

RECURSIVE BinaryPerceptron_score_sum(_, _, _)
\* the generator of score: reads weights[feature] for each feature of x in
\* turn, which inserts the missing key with value 0; acc is the sum so far
BinaryPerceptron_score_sum(w, x, acc) ==
    IF x = <<>>
    THEN [w |-> w, sum |-> acc]
    ELSE Let(Put(w, Head(x), Get(w, Head(x), 0)), LAMBDA w1 :
             BinaryPerceptron_score_sum(w1, Tail(x), acc + w1[Head(x)]))

\* BinaryPerceptron.score(x)
BinaryPerceptron_score(mm, x) ==
    Let(BinaryPerceptron_score_sum(mm.weights, x, 0), LAMBDA r :
        Outcome([mm EXCEPT !.weights = r.w], r.sum, "none"))

\* BinaryPerceptron.predict(x)
BinaryPerceptron_predict(mm, x) ==
    Let(BinaryPerceptron_score(mm, x), LAMBDA r :
        Outcome(r.m, Bool(r.ret >= 0), "none"))

RECURSIVE BinaryPerceptron_update_loop(_, _, _)
\* for feature in x: self.weights[feature] += tau
BinaryPerceptron_update_loop(w, x, tau) ==
    IF x = <<>>
    THEN w
    ELSE Let(Put(w, Head(x), Get(w, Head(x), 0) + tau), LAMBDA w1 :
             BinaryPerceptron_update_loop(w1, Tail(x), tau))

\* update as it would be without the test of y
BinaryPerceptron_update_unsigned(mm, x, y) ==
    Outcome([mm EXCEPT !.weights = BinaryPerceptron_update_loop(@, x, 1)],
            "None", "none")

\* BinaryPerceptron.update(x, y, tau=1): only `y is False` is tested
BinaryPerceptron_update(mm, x, y) ==
    LET tau == IF y = "False" THEN -1 ELSE 1
    IN  Outcome([mm EXCEPT !.weights = BinaryPerceptron_update_loop(@, x, tau)],
                "None", "none")

\* BinaryPerceptron.finalize: the comprehension iterates over the name
\* `weight`, which is bound nowhere, so the call raises NameError before
\* self.weights is assigned
BinaryPerceptron_finalize(mm) == Outcome(mm, "None", "NameError")

---------------------------------------------------------------------------
(* class BinaryAveragedPerceptron(BinaryPerceptron) *)

\* BinaryAveragedPerceptron.__init__: weights is a defaultdict(LazyWeight)
BinaryAveragedPerceptron ==
    [cls |-> "BinaryAveragedPerceptron", weights |-> <<>>, classes |-> {},
     isdefaultdict |-> TRUE, time |-> 0, order |-> 0]

\* score is inherited from BinaryPerceptron: sum() starts from the int 0 and
\* adds the first LazyWeight object to it, which raises TypeError, the first
\* feature's key having been inserted; an empty x sums to 0
BinaryAveragedPerceptron_score(mm, x) ==
    IF x = <<>>
    THEN Outcome(mm, 0, "none")
    ELSE Outcome([mm EXCEPT !.weights = Put(@, Head(x), Get(@, Head(x), LazyWeight))],
                 0, "TypeError")

RECURSIVE BinaryAveragedPerceptron_predict_sum(_, _, _)
\* sum(self.weights[feature].get() for feature in x)
BinaryAveragedPerceptron_predict_sum(w, x, acc) ==
    IF x = <<>>
    THEN [w |-> w, sum |-> acc]
    ELSE Let(Put(w, Head(x), Get(w, Head(x), LazyWeight)), LAMBDA w1 :
         Let(Plus(acc, LazyWeight_get(w1[Head(x)])), LAMBDA acc1 :
             BinaryAveragedPerceptron_predict_sum(w1, Tail(x), acc1)))

\* BinaryAveragedPerceptron.predict(x)
BinaryAveragedPerceptron_predict(mm, x) ==
    Let(BinaryAveragedPerceptron_predict_sum(mm.weights, x, Zero), LAMBDA r :
        Outcome([mm EXCEPT !.weights = r.w], Bool(r.sum.n >= 0), "none"))

RECURSIVE BinaryAveragedPerceptron_update_loop(_, _, _, _)
\* for feature in x: self.weights[feature].update(tau, self.time)
BinaryAveragedPerceptron_update_loop(w, x, tau, time) ==
    IF x = <<>>
    THEN w
    ELSE Let(Put(w, Head(x), LazyWeight_update(Get(w, Head(x), LazyWeight), tau, time)),
             LAMBDA w1 : BinaryAveragedPerceptron_update_loop(w1, Tail(x), tau, time))

\* BinaryAveragedPerceptron.update(x, y, tau=1)
BinaryAveragedPerceptron_update(mm, x, y) ==
    IF y # "False" /\ y # "True"
    THEN Outcome(mm, "None", "ValueError")
    ELSE LET tau == IF y = "False" THEN -1 ELSE 1
         IN  Outcome([mm EXCEPT !.weights =
                          BinaryAveragedPerceptron_update_loop(@, x, tau, mm.time)],
                     "None", "none")

\* `weight == 0.` for a LazyWeight object: the class defines no __eq__, so
\* the comparison with a float falls back to identity and is False
LazyWeight_eq(w, v) == FALSE

\* BinaryAveragedPerceptron.finalize.  With self.time = 0 the first
\* weight.average(0) raises ZeroDivisionError; every timestamp is 0 then,
\* so the _freshen before the division changes nothing.
BinaryAveragedPerceptron_finalize(mm) ==
    LET w == mm.weights
        ready2die == {f \in DOMAIN w : LazyWeight_eq(w[f], 0)}
        averaged == [f \in DOMAIN w |->
                        IF f \in ready2die THEN w[f]
                        ELSE LazyWeight_average(w[f], mm.time).w]
    IN  IF \E f \in (DOMAIN w) \ ready2die :
               LazyWeight_average(w[f], mm.time).err # "none"
        THEN Outcome(mm, "None", "ZeroDivisionError")
        ELSE Outcome([mm EXCEPT !.weights =
                          [f \in (DOMAIN w) \ ready2die |-> averaged[f]]],
                     "None", "none")

---------------------------------------------------------------------------
(* class Perceptron *)

\* Perceptron.__init__(default=None): classes = {None}, weights is a
\* defaultdict of defaultdict(int)
Perceptron ==
    [cls |-> "Perceptron", weights |-> <<>>, classes |-> {"None"},
     isdefaultdict |-> TRUE, time |-> 0, order |-> 0]

RECURSIVE Perceptron_score_sum(_, _, _, _, _)
\* the generator of score: self.weights[feature][y] for each feature of x.
\* A defaultdict inserts a missing feature or class; the plain dict that
\* finalize leaves raises KeyError instead.
Perceptron_score_sum(w, isdd, x, y, acc) ==
    IF x = <<>>
    THEN [w |-> w, sum |-> acc, err |-> "none"]
    ELSE LET f == Head(x)
             inner == Get(w, f, <<>>)
         IN  IF ~isdd /\ (f \notin DOMAIN w \/ y \notin DOMAIN w[f])
             THEN [w |-> w, sum |-> acc, err |-> "KeyError"]
             ELSE Let(Put(w, f, Put(inner, y, Get(inner, y, 0))), LAMBDA w1 :
                      Perceptron_score_sum(w1, isdd, Tail(x), y, acc + w1[f][y]))

\* Perceptron.score(x, y)
Perceptron_score(mm, x, y) ==
    Let(Perceptron_score_sum(mm.weights, mm.isdefaultdict, x, y, 0), LAMBDA r :
        Outcome([mm EXCEPT !.weights = r.w], r.sum, r.err))

RECURSIVE Perceptron_scores_loop(_, _, _, _)
\* the loop of scores over the features of x: self.weights[feature] inserts
\* an empty inner dict into a defaultdict and raises KeyError on a plain
\* dict; scores[cls] += weight raises KeyError for a cls that is a key of
\* the inner dict and not a member of self.classes
Perceptron_scores_loop(w, isdd, x, sc) ==
    IF x = <<>>
    THEN [w |-> w, scores |-> sc, err |-> "none"]
    ELSE IF ~isdd /\ Head(x) \notin DOMAIN w
    THEN [w |-> w, scores |-> sc, err |-> "KeyError"]
    ELSE Let(Put(w, Head(x), Get(w, Head(x), <<>>)), LAMBDA w1 :
             IF \E c \in DOMAIN w1[Head(x)] : c \notin DOMAIN sc
             THEN [w |-> w1, scores |-> sc, err |-> "KeyError"]
             ELSE Let([c \in DOMAIN sc |-> sc[c] + Get(w1[Head(x)], c, 0)], LAMBDA sc1 :
                      Perceptron_scores_loop(w1, isdd, Tail(x), sc1)))

\* Perceptron.scores(x)
Perceptron_scores(mm, x) ==
    Let(Perceptron_scores_loop(mm.weights, mm.isdefaultdict, x,
                               [c \in mm.classes |-> 0]), LAMBDA r :
        Outcome([mm EXCEPT !.weights = r.w], r.scores, r.err))

RECURSIVE Perceptron_update_loop(_, _, _, _, _)
\* for feature in x: feature_ptr[y] += tau; feature_ptr[yhat] -= tau
Perceptron_update_loop(w, x, y, yhat, tau) ==
    IF x = <<>>
    THEN w
    ELSE Let(Get(w, Head(x), <<>>), LAMBDA p0 :
         Let(Put(p0, y, Get(p0, y, 0) + tau), LAMBDA p1 :
         Let(Put(p1, yhat, Get(p1, yhat, 0) - tau), LAMBDA p2 :
         Let(Put(w, Head(x), p2), LAMBDA w1 :
             Perceptron_update_loop(w1, Tail(x), y, yhat, tau)))))

\* Perceptron.update(x, y, yhat, tau=1)
Perceptron_update(mm, x, y, yhat) ==
    Outcome([mm EXCEPT !.weights = Perceptron_update_loop(@, x, y, yhat, 1)],
            "None", "none")

\* Perceptron.finalize: self.weights becomes a plain dict of plain dicts
Perceptron_finalize(mm) ==
    LET w == mm.weights
    IN  Outcome([mm EXCEPT
                    !.weights = [f \in DOMAIN w |->
                                    [c \in {k \in DOMAIN w[f] : w[f][k] # 0} |-> w[f][c]]],
                    !.isdefaultdict = FALSE],
                "None", "none")

---------------------------------------------------------------------------
(* class AveragedPerceptron(Perceptron) *)

\* AveragedPerceptron.__init__: weights is a defaultdict of
\* defaultdict(LazyWeight)
AveragedPerceptron ==
    [cls |-> "AveragedPerceptron", weights |-> <<>>, classes |-> {"None"},
     isdefaultdict |-> TRUE, time |-> 0, order |-> 0]

RECURSIVE AveragedPerceptron_score_sum(_, _, _, _)
\* sum(self.weights[feature][y].get() for feature in x)
AveragedPerceptron_score_sum(w, x, y, acc) ==
    IF x = <<>>
    THEN [w |-> w, sum |-> acc]
    ELSE LET f == Head(x)
             inner == Get(w, f, <<>>)
             lwt == Get(inner, y, LazyWeight)
         IN  Let(Put(w, f, Put(inner, y, lwt)), LAMBDA w1 :
             Let(Plus(acc, LazyWeight_get(w1[f][y])), LAMBDA acc1 :
                 AveragedPerceptron_score_sum(w1, Tail(x), y, acc1)))

\* AveragedPerceptron.score(x, y)
AveragedPerceptron_score(mm, x, y) ==
    Let(AveragedPerceptron_score_sum(mm.weights, x, y, Zero), LAMBDA r :
        Outcome([mm EXCEPT !.weights = r.w], r.sum, "none"))

RECURSIVE AveragedPerceptron_scores_loop(_, _, _)
\* the loop of scores: scores[cls] += weight.get()
AveragedPerceptron_scores_loop(w, x, sc) ==
    IF x = <<>>
    THEN [w |-> w, scores |-> sc, err |-> "none"]
    ELSE Let(Put(w, Head(x), Get(w, Head(x), <<>>)), LAMBDA w1 :
             IF \E c \in DOMAIN w1[Head(x)] : c \notin DOMAIN sc
             THEN [w |-> w1, scores |-> sc, err |-> "KeyError"]
             ELSE Let([c \in DOMAIN sc |->
                          IF c \in DOMAIN w1[Head(x)]
                          THEN Plus(sc[c], LazyWeight_get(w1[Head(x)][c]))
                          ELSE sc[c]], LAMBDA sc1 :
                      AveragedPerceptron_scores_loop(w1, Tail(x), sc1)))

\* AveragedPerceptron.scores(x)
AveragedPerceptron_scores(mm, x) ==
    Let(AveragedPerceptron_scores_loop(mm.weights, x, [c \in mm.classes |-> Zero]),
        LAMBDA r : Outcome([mm EXCEPT !.weights = r.w], r.scores, r.err))

RECURSIVE AveragedPerceptron_update_loop(_, _, _, _, _, _)
\* for feature in x: feature_ptr[y].update(+tau, self.time);
\*                   feature_ptr[yhat].update(-tau, self.time)
AveragedPerceptron_update_loop(w, x, y, yhat, tau, time) ==
    IF x = <<>>
    THEN w
    ELSE Let(Get(w, Head(x), <<>>), LAMBDA p0 :
         Let(Put(p0, y, LazyWeight_update(Get(p0, y, LazyWeight), tau, time)), LAMBDA p1 :
         Let(Put(p1, yhat, LazyWeight_update(Get(p1, yhat, LazyWeight), -tau, time)),
             LAMBDA p2 :
         Let(Put(w, Head(x), p2), LAMBDA w1 :
             AveragedPerceptron_update_loop(w1, Tail(x), y, yhat, tau, time)))))

\* AveragedPerceptron.update(x, y, yhat, tau=1)
AveragedPerceptron_update(mm, x, y, yhat) ==
    Outcome([mm EXCEPT !.weights =
                 AveragedPerceptron_update_loop(@, x, y, yhat, 1, mm.time)],
            "None", "none")

\* AveragedPerceptron.finalize.  With self.time = 0 the first
\* weight.average(0) raises ZeroDivisionError; every timestamp is 0 then,
\* so the _freshen before the division changes nothing.
AveragedPerceptron_finalize(mm) ==
    LET w == mm.weights
        items == {fc \in Features \X Classes :
                     fc[1] \in DOMAIN w /\ fc[2] \in DOMAIN w[fc[1]]}
        ready2die == {fc \in items : LazyWeight_eq(w[fc[1]][fc[2]], 0)}
    IN  IF \E fc \in items \ ready2die :
               LazyWeight_average(w[fc[1]][fc[2]], mm.time).err # "none"
        THEN Outcome(mm, "None", "ZeroDivisionError")
        ELSE Outcome([mm EXCEPT !.weights =
                          [f \in DOMAIN w |->
                              [c \in {k \in DOMAIN w[f] : <<f, k>> \notin ready2die} |->
                                  LazyWeight_average(w[f][c], mm.time).w]]],
                     "None", "none")

---------------------------------------------------------------------------
(* Methods resolved on the object's class, and the methods that call them *)

IsAveraged(mm) == mm.cls \in {"BinaryAveragedPerceptron", "AveragedPerceptron"}

IsBinary(mm) == mm.cls \in {"BinaryPerceptron", "BinaryAveragedPerceptron"}

\* self.scores(x): AveragedPerceptron overrides Perceptron.scores,
\* SequencePerceptron inherits it
scores(mm, x) ==
    IF mm.cls = "AveragedPerceptron"
    THEN AveragedPerceptron_scores(mm, x)
    ELSE Perceptron_scores(mm, x)

\* a <= b for two scores of the object: ints, or the floats of LazyWeights
ScoreLeq(mm, a, b) ==
    IF IsAveraged(mm) THEN a.n * b.d <= b.n * a.d ELSE a <= b

\* max(scores.items(), key=itemgetter(1))[0]: the first key, in the dict's
\* iteration order co, whose value no other value exceeds.  The dict is
\* dict.fromkeys(self.classes, 0), so co is the iteration order of the set
\* self.classes, which depends on the hashes of its members.
MaxItem(mm, sc, co) ==
    LET best(i) == \A j \in 1 .. Len(co) : ScoreLeq(mm, sc[co[j]], sc[co[i]])
        first == CHOOSE i \in 1 .. Len(co) :
                     best(i) /\ \A k \in 1 .. (i - 1) : ~best(k)
    IN  co[first]

\* Perceptron.predict(x), inherited by AveragedPerceptron
Perceptron_predict(mm, x, co) ==
    Let(scores(mm, x), LAMBDA r :
        IF r.err # "none"
        THEN Outcome(r.m, "None", r.err)
        ELSE Outcome(r.m, MaxItem(mm, r.ret, co), "none"))

\* SequencePerceptron.__init__(tfeats_fnc, order)
SequencePerceptron(order) ==
    [cls |-> "SequencePerceptron", weights |-> <<>>, classes |-> {"None"},
     isdefaultdict |-> TRUE, time |-> 0, order |-> order]

RECURSIVE SequencePerceptron_markov0_predict(_, _, _, _)
\* SequencePerceptron._markov0_predict(xx), the generator made a list by
\* @listify; acc holds the labels yielded so far
SequencePerceptron_markov0_predict(mm, xx, co, acc) ==
    IF xx = <<>>
    THEN Outcome(mm, acc, "none")
    ELSE Let(scores(mm, Head(xx)), LAMBDA r :
             IF r.err # "none"
             THEN Outcome(r.m, acc, r.err)
             ELSE Let(Append(acc, MaxItem(r.m, r.ret, co)), LAMBDA acc1 :
                      SequencePerceptron_markov0_predict(r.m, Tail(xx), co, acc1)))

\* SequencePerceptron._greedy_predict(xx): the first iteration evaluates
\* the name `sequence`, which is bound nowhere, and raises NameError before
\* tfeats_fnc is called; an empty xx returns ([], [])
SequencePerceptron_greedy_predict(mm, xx) ==
    IF xx = <<>>
    THEN Outcome(mm, [xxt |-> <<>>, yyhat |-> <<>>], "none")
    ELSE Outcome(mm, [xxt |-> <<>>, yyhat |-> <<>>], "NameError")

\* SequencePerceptron.predict(xx)
SequencePerceptron_predict(mm, xx, co) ==
    IF mm.order <= 0
    THEN SequencePerceptron_markov0_predict(mm, xx, co, <<>>)
    ELSE Let(SequencePerceptron_greedy_predict(mm, xx), LAMBDA r :
             Outcome(r.m, r.ret.yyhat, r.err))

\* SequencePerceptron.predict_with_transitions(xx): for order > 0 it calls
\* self._greedy_predict_with_transitions, which no class defines
SequencePerceptron_predict_with_transitions(mm, xx, co) ==
    IF mm.order <= 0
    THEN Let(SequencePerceptron_markov0_predict(mm, xx, co, <<>>), LAMBDA r :
             Outcome(r.m, [xxt |-> xx, yyhat |-> r.ret], r.err))
    ELSE Outcome(mm, [xxt |-> <<>>, yyhat |-> <<>>], "AttributeError")

\* self.predict(x)
predict(mm, x, co) ==
    CASE mm.cls = "BinaryPerceptron" -> BinaryPerceptron_predict(mm, x)
      [] mm.cls = "BinaryAveragedPerceptron" -> BinaryAveragedPerceptron_predict(mm, x)
      [] mm.cls = "SequencePerceptron" -> SequencePerceptron_predict(mm, x, co)
      [] OTHER -> Perceptron_predict(mm, x, co)

\* self.update(x, y[, yhat])
update(mm, x, y, yhat) ==
    CASE mm.cls = "BinaryPerceptron" -> BinaryPerceptron_update(mm, x, y)
      [] mm.cls = "BinaryAveragedPerceptron" -> BinaryAveragedPerceptron_update(mm, x, y)
      [] mm.cls = "AveragedPerceptron" -> AveragedPerceptron_update(mm, x, y, yhat)
      [] OTHER -> Perceptron_update(mm, x, y, yhat)

\* fit_one as it would be without the test `y != yhat`
BinaryPerceptron_fit_one_always(mm, x, y) ==
    Let(predict(mm, x, <<>>), LAMBDA p :
    Let(update(p.m, x, y, p.ret), LAMBDA u : Outcome(u.m, p.ret, u.err)))

\* BinaryPerceptron.fit_one(x, y)
BinaryPerceptron_fit_one(mm, x, y) ==
    Let(predict(mm, x, <<>>), LAMBDA p :
        IF y # p.ret
        THEN Let(update(p.m, x, y, p.ret), LAMBDA u : Outcome(u.m, p.ret, u.err))
        ELSE Outcome(p.m, p.ret, "none"))

\* fit_one as it would be with the clock advanced only on a mistake
BinaryAveragedPerceptron_fit_one_tickonmistake(mm, x, y) ==
    Let(BinaryPerceptron_fit_one(mm, x, y), LAMBDA r :
        IF r.err # "none"
        THEN r
        ELSE Outcome([r.m EXCEPT !.time = IF r.ret # y THEN @ + 1 ELSE @],
                     r.ret, "none"))

\* BinaryAveragedPerceptron.fit_one(x, y)
BinaryAveragedPerceptron_fit_one(mm, x, y) ==
    Let(BinaryPerceptron_fit_one(mm, x, y), LAMBDA r :
        IF r.err # "none"
        THEN r
        ELSE Outcome([r.m EXCEPT !.time = @ + 1], r.ret, "none"))

\* Perceptron.fit_one(x, y)
Perceptron_fit_one(mm, x, y, co) ==
    Let([mm EXCEPT !.classes = @ \cup {y}], LAMBDA m1 :
    Let(predict(m1, x, co), LAMBDA p :
        IF p.err # "none"
        THEN p
        ELSE IF y # p.ret
        THEN Let(update(p.m, x, y, p.ret), LAMBDA u : Outcome(u.m, p.ret, u.err))
        ELSE Outcome(p.m, p.ret, "none")))

\* AveragedPerceptron.fit_one(x, y)
AveragedPerceptron_fit_one(mm, x, y, co) ==
    Let(Perceptron_fit_one(mm, x, y, co), LAMBDA r :
        IF r.err # "none"
        THEN r
        ELSE Outcome([r.m EXCEPT !.time = @ + 1], r.ret, "none"))

RECURSIVE SequencePerceptron_fit_one_loop(_, _, _, _, _)
\* for (i, (xt, y, yhat)) in enumerate(zip(xxt, yy, yyhat)):
\*     if y != yhat: self.update(xt, y, yhat)
SequencePerceptron_fit_one_loop(mm, xxt, yy, yyhat, i) ==
    IF i > Len(xxt) \/ i > Len(yy) \/ i > Len(yyhat)
    THEN mm
    ELSE Let(IF yy[i] # yyhat[i] THEN update(mm, xxt[i], yy[i], yyhat[i]).m ELSE mm,
             LAMBDA m1 : SequencePerceptron_fit_one_loop(m1, xxt, yy, yyhat, i + 1))

\* SequencePerceptron.fit_one(xx, yy)
SequencePerceptron_fit_one(mm, xx, yy, co) ==
    Let([mm EXCEPT !.classes = @ \cup Range(yy)], LAMBDA m1 :
    Let(SequencePerceptron_predict_with_transitions(m1, xx, co), LAMBDA p :
        IF p.err # "none"
        THEN Outcome(p.m, "None", p.err)
        ELSE Outcome(SequencePerceptron_fit_one_loop(p.m, p.ret.xxt, yy, p.ret.yyhat, 1),
                     p.ret.yyhat, "none")))

\* self.fit_one(x, y)
fit_one(mm, x, y, co) ==
    CASE mm.cls = "BinaryPerceptron" -> BinaryPerceptron_fit_one(mm, x, y)
      [] mm.cls = "BinaryAveragedPerceptron" -> BinaryAveragedPerceptron_fit_one(mm, x, y)
      [] mm.cls = "AveragedPerceptron" -> AveragedPerceptron_fit_one(mm, x, y, co)
      [] mm.cls = "SequencePerceptron" -> SequencePerceptron_fit_one(mm, x, y, co)
      [] OTHER -> Perceptron_fit_one(mm, x, y, co)

\* self.score(x[, y])
score(mm, x, y) ==
    CASE mm.cls = "BinaryPerceptron" -> BinaryPerceptron_score(mm, x)
      [] mm.cls = "BinaryAveragedPerceptron" -> BinaryAveragedPerceptron_score(mm, x)
      [] mm.cls = "AveragedPerceptron" -> AveragedPerceptron_score(mm, x, y)
      [] OTHER -> Perceptron_score(mm, x, y)

\* self.finalize()
finalize(mm) ==
    CASE mm.cls = "BinaryPerceptron" -> BinaryPerceptron_finalize(mm)
      [] mm.cls = "BinaryAveragedPerceptron" -> BinaryAveragedPerceptron_finalize(mm)
      [] mm.cls = "AveragedPerceptron" -> AveragedPerceptron_finalize(mm)
      [] OTHER -> Perceptron_finalize(mm)

---------------------------------------------------------------------------
(* Calls on one classifier object *)

\* feature vectors: a set of features in the order its iteration yields them
XS == OrdersUpTo(Features \ {Unknown}, Cardinality(Features \ {Unknown}))

\* token sequences of a sequence model: one feature vector per token
XXS == UNION {[1 .. n -> OrdersUpTo(Features \ {Unknown}, 1)] : n \in 0 .. MaxLen}

IsSequence(mm) == mm.cls = "SequencePerceptron"

Labels(mm) == IF IsBinary(mm) THEN BinaryLabels ELSE Classes

\* the arguments of predict
PredictArgs(mm) == IF IsSequence(mm) THEN XXS ELSE XS

\* the arguments (x, y) of fit_one; the labels the call adds to classes
FitArgs(mm) ==
    IF IsSequence(mm)
    THEN {<<xx, yy>> : xx \in XXS, yy \in UNION {[1 .. n -> Classes] : n \in 0 .. MaxLen}}
    ELSE XS \X Labels(mm)

NewClasses(mm, y) ==
    IF IsBinary(mm) THEN {} ELSE IF IsSequence(mm) THEN Range(y) ELSE {y}

\* the iteration orders of self.classes once cs has been added to it
ClassOrders(mm, cs) == IF IsBinary(mm) THEN {<<>>} ELSE Orders(mm.classes \cup cs)

Call(op, x, y, yhat, pre, r) ==
    [op |-> op, x |-> x, y |-> y, yhat |-> yhat, pre |-> pre,
     ret |-> r.ret, err |-> r.err]

NoCall(mm) == Call("init", <<>>, "None", "None", mm, Outcome(mm, "None", "none"))

IdleLazy ==
    /\ lw = LazyWeight
    /\ traj = <<>>
    /\ lwcalls = 0
    /\ lwret = "none"
    /\ lwT = 0

IdleFit ==
    /\ data = <<>>
    /\ epochs = 0
    /\ epoch = 0
    /\ idx = 0
    /\ fitted = 0
    /\ pc = "idle"

IdlePair ==
    /\ plain = BinaryPerceptron
    /\ plast = NoCall(plain)

Init ==
    /\ m \in {BinaryPerceptron, BinaryAveragedPerceptron, Perceptron, AveragedPerceptron}
    /\ last = NoCall(m)
    /\ calls = 0
    /\ fin = 0
    /\ IdleLazy
    /\ IdleFit
    /\ IdlePair

InitSeq ==
    /\ m \in {SequencePerceptron(0), SequencePerceptron(1)}
    /\ last = NoCall(m)
    /\ calls = 0
    /\ fin = 0
    /\ IdleLazy
    /\ IdleFit
    /\ IdlePair

\* m.fit_one(x, y), while m is being trained
FitOne ==
    /\ fin = 0
    /\ calls < MaxCalls
    /\ \E a \in FitArgs(m) :
         \E co \in ClassOrders(m, NewClasses(m, a[2])) :
            \E r \in {fit_one(m, a[1], a[2], co)} :
                /\ m' = r.m
                /\ last' = Call("fit_one", a[1], a[2], "None", m, r)
    /\ calls' = calls + 1
    /\ UNCHANGED <<fin, lazyvars, fitvars, pairvars>>

\* m.update(x, y) or m.update(x, y, yhat), while m is being trained
Update ==
    /\ fin = 0
    /\ calls < MaxCalls
    /\ \E x \in XS, y \in Labels(m), yhat \in Labels(m) :
            \E r \in {update(m, x, y, yhat)} :
                /\ IsBinary(m) => yhat = y
                /\ m' = r.m
                /\ last' = Call("update", x, y, yhat, m, r)
    /\ calls' = calls + 1
    /\ UNCHANGED <<fin, lazyvars, fitvars, pairvars>>

\* m.predict(x)
Predict ==
    /\ calls < MaxCalls
    /\ \E x \in PredictArgs(m), co \in ClassOrders(m, {}) :
            \E r \in {predict(m, x, co)} :
                /\ m' = r.m
                /\ last' = Call("predict", x, "None", "None", m, r)
    /\ calls' = calls + 1
    /\ UNCHANGED <<fin, lazyvars, fitvars, pairvars>>

\* m.finalize()
Finalize ==
    /\ fin < MaxFinalize
    /\ \E r \in {finalize(m)} :
           /\ m' = r.m
           /\ last' = Call("finalize", <<>>, "None", "None", m, r)
    /\ fin' = fin + 1
    /\ UNCHANGED <<calls, lazyvars, fitvars, pairvars>>

Next == FitOne \/ Update \/ Predict \/ Finalize

Spec == Init /\ [][Next]_vars

SpecSeq == InitSeq /\ [][Next]_vars

---------------------------------------------------------------------------
(* Classifier.fit(X, Y, epochs) on a new averaged perceptron *)

\* the instances a training set is drawn from
Instances(mm) == {<<"a">>, <<"a", "b">>} \X (Labels(mm) \ {"None"})

\* random.shuffle(data): the orders the list can be left in
Shuffles(d) == {[i \in 1 .. Len(d) |-> d[p[i]]] : p \in Orders(1 .. Len(d))}

InitFit ==
    /\ m \in {BinaryAveragedPerceptron, AveragedPerceptron}
    /\ last = NoCall(m)
    /\ calls = 0
    /\ fin = 0
    /\ data \in UNION {[1 .. n -> Instances(m)] : n \in 0 .. MaxData}
    /\ epochs \in 0 .. MaxEpochs
    /\ epoch = 0
    /\ idx = 0
    /\ fitted = 0
    /\ pc = "epoch"
    /\ IdleLazy
    /\ IdlePair

\* for epoch in range(1, 1 + epochs): ... self.random.shuffle(data)
FitShuffle ==
    /\ pc = "epoch"
    /\ epoch < epochs
    /\ epoch' = epoch + 1
    /\ data' \in Shuffles(data)
    /\ idx' = 1
    /\ pc' = "instance"
    /\ UNCHANGED <<m, last, calls, fin, epochs, fitted, lazyvars, pairvars>>

\* for (x, y) in data: yhat = self.fit_one(x, y)
FitInstance ==
    /\ pc = "instance"
    /\ idx <= Len(data)
    /\ \E co \in ClassOrders(m, NewClasses(m, data[idx][2])) :
            \E r \in {fit_one(m, data[idx][1], data[idx][2], co)} :
                /\ m' = r.m
                /\ last' = Call("fit_one", data[idx][1], data[idx][2], "None", m, r)
                /\ pc' = IF r.err = "none" THEN "instance" ELSE "raised"
                /\ fitted' = IF r.err = "none" THEN fitted + 1 ELSE fitted
    /\ idx' = idx + 1
    /\ calls' = calls + 1
    /\ UNCHANGED <<fin, data, epochs, epoch, lazyvars, pairvars>>

\* the end of the inner loop: the epoch's log lines
FitEpochEnd ==
    /\ pc = "instance"
    /\ idx > Len(data)
    /\ pc' = "epoch"
    /\ UNCHANGED <<m, last, calls, fin, data, epochs, epoch, idx, fitted, lazyvars, pairvars>>

\* self.finalize(), after the last epoch
FitFinalize ==
    /\ pc = "epoch"
    /\ epoch = epochs
    /\ \E r \in {finalize(m)} :
           /\ m' = r.m
           /\ last' = Call("finalize", <<>>, "None", "None", m, r)
           /\ pc' = IF r.err = "none" THEN "done" ELSE "raised"
    /\ fin' = fin + 1
    /\ UNCHANGED <<calls, data, epochs, epoch, idx, fitted, lazyvars, pairvars>>

NextFit == FitShuffle \/ FitInstance \/ FitEpochEnd \/ FitFinalize

SpecFit == InitFit /\ [][NextFit]_vars

---------------------------------------------------------------------------
(* A LazyWeight driven by update calls with non-decreasing times, then one *)
(* average call, beside a simulator that keeps the value of every tick.    *)

Ticks == 0 .. (MaxTime - 1)

InitLazy ==
    /\ lw = LazyWeight
    /\ traj = [k \in Ticks |-> 0]
    /\ lwcalls = 0
    /\ lwret = "none"
    /\ lwT = 0
    /\ m = BinaryPerceptron
    /\ last = NoCall(m)
    /\ calls = 0
    /\ fin = 0
    /\ IdleFit
    /\ IdlePair

\* lw.update(delta, t) with t not before the last call's time
LWUpdate ==
    /\ lwret = "none"
    /\ lwcalls < MaxUpdates
    /\ \E delta \in Deltas, t \in 0 .. MaxTime :
        /\ t >= lw.timestamp
        /\ lw' = LazyWeight_update(lw, delta, t)
        /\ traj' = [k \in Ticks |-> IF k >= t THEN traj[k] + delta ELSE traj[k]]
    /\ lwcalls' = lwcalls + 1
    /\ UNCHANGED <<lwret, lwT, modelvars, fitvars, pairvars>>

\* lw.average(T) with T not before the last call's time
LWAverage ==
    /\ lwret = "none"
    /\ \E T \in 0 .. MaxTime :
        /\ T >= lw.timestamp
        /\ \E r \in {LazyWeight_average(lw, T)} :
               /\ lw' = r.w
               /\ lwret' = IF r.err = "none" THEN "ok" ELSE r.err
        /\ lwT' = T
    /\ UNCHANGED <<traj, lwcalls, modelvars, fitvars, pairvars>>

NextLazy == LWUpdate \/ LWAverage

SpecLazy == InitLazy /\ [][NextLazy]_vars

---------------------------------------------------------------------------
(* A BinaryAveragedPerceptron m and a BinaryPerceptron plain, both new, given
   the same fit_one calls and then finalize *)

InitPair ==
    /\ m = BinaryAveragedPerceptron
    /\ last = NoCall(m)
    /\ calls = 0
    /\ fin = 0
    /\ plain = BinaryPerceptron
    /\ plast = NoCall(plain)
    /\ IdleLazy
    /\ IdleFit

\* m.fit_one(x, y); plain.fit_one(x, y) with a bool y
PairFitOne ==
    /\ fin = 0
    /\ calls < MaxCalls
    /\ \E x \in XS, y \in {"True", "False"} :
         \E r \in {fit_one(m, x, y, <<>>)}, q \in {fit_one(plain, x, y, <<>>)} :
            /\ m' = r.m
            /\ last' = Call("fit_one", x, y, "None", m, r)
            /\ plain' = q.m
            /\ plast' = Call("fit_one", x, y, "None", plain, q)
    /\ calls' = calls + 1
    /\ UNCHANGED <<fin, lazyvars, fitvars>>

\* m.finalize(); plain.finalize()
PairFinalize ==
    /\ fin < MaxFinalize
    /\ \E r \in {finalize(m)}, q \in {finalize(plain)} :
           /\ m' = r.m
           /\ last' = Call("finalize", <<>>, "None", "None", m, r)
           /\ plain' = q.m
           /\ plast' = Call("finalize", <<>>, "None", "None", plain, q)
    /\ fin' = fin + 1
    /\ UNCHANGED <<calls, lazyvars, fitvars>>

NextPair == PairFitOne \/ PairFinalize

SpecPair == InitPair /\ [][NextPair]_vars

---------------------------------------------------------------------------
(* Claims *)

RECURSIVE SumTicks(_, _)
\* traj[0] + ... + traj[T-1]
SumTicks(f, T) == IF T = 0 THEN 0 ELSE f[T - 1] + SumTicks(f, T - 1)

\* C1: after update calls with non-decreasing times and average(T), T > 0,
\* the weight is the mean over the ticks 0..T-1 of the value held at each
\* tick, as the per-tick simulator computes it.
C1_LazyAverageIsTrajectoryMean ==
    (lwret = "ok") => (lw.weight = Norm(SumTicks(traj, lwT), lwT))

\* a run of three updates at different values, averaged to a non-integer
C1_Witness ==
    /\ lwret = "ok"
    /\ lwcalls = MaxUpdates
    /\ lw.weight.d > 1
    /\ \E j, k \in Ticks : j < k /\ k < lwT /\ traj[j] # traj[k] /\ traj[j] # 0

---------------------------------------------------------------------------
(* What a classifier stores, read without touching it *)

Frac(i) == [n |-> i, d |-> 1]

\* a <= b for two fractions
FracLeq(a, b) == a.n * b.d <= b.n * a.d

\* the keys the weight store holds: (feature) or (feature, class)
WeightKeys(mm) ==
    IF IsBinary(mm)
    THEN {<<f>> : f \in DOMAIN mm.weights}
    ELSE {k \in Features \X Classes :
             k[1] \in DOMAIN mm.weights /\ k[2] \in DOMAIN mm.weights[k[1]]}

AllKeys(mm) == IF IsBinary(mm) THEN {<<f>> : f \in Features} ELSE Features \X Classes

\* the object stored under key k: an int, or a LazyWeight
Entry(mm, k) == IF IsBinary(mm) THEN mm.weights[k[1]] ELSE mm.weights[k[1]][k[2]]

\* the value of key k as inference reads it; 0 for a key that is not stored
Value(mm, k) ==
    IF k \notin WeightKeys(mm) THEN Zero
    ELSE IF IsAveraged(mm) THEN Entry(mm, k).weight
    ELSE Frac(Entry(mm, k))

RECURSIVE SumOver(_, _)
\* the sum of the fractions F[e] for e in S
SumOver(F, S) ==
    IF S = {} THEN Zero
    ELSE LET e == CHOOSE e \in S : TRUE
         IN  Plus(F[e], SumOver(F, S \ {e}))

\* the score of class c (of the positive class, for a binary model) on the
\* feature set X
ScoreOf(mm, X, c) ==
    SumOver([f \in X |-> Value(mm, IF IsBinary(mm) THEN <<f>> ELSE <<f, c>>)], X)

Sign(y) == IF y = "False" THEN -1 ELSE 1

---------------------------------------------------------------------------
(* Claims about the classifiers *)

\* C2: after finalize() no stored weight has value exactly 0, and in the
\* averaged classes every stored LazyWeight holds summed_weight / time.
C2_FinalizePrunesZerosAndAverages ==
    (last.op = "finalize") =>
        /\ \A k \in WeightKeys(m) : Value(m, k) # Zero
        /\ IsAveraged(m) =>
              \A k \in WeightKeys(m) :
                  /\ m.time > 0
                  /\ Entry(m, k).weight = TrueDiv(Entry(m, k).summed_weight, m.time)

\* C3: a finalize() call on an object that finalize() was already called on
\* leaves the weight store as it was before the call, whether the call
\* returns or raises: the same keys, each at the same value.
C3_FinalizeIdempotent ==
    (last.op = "finalize" /\ fin >= 2) =>
        /\ WeightKeys(m) = WeightKeys(last.pre)
        /\ \A k \in WeightKeys(m) : Value(m, k) = Value(last.pre, k)

\* a second finalize of an averaged model that holds a non-integer average
C3_Witness ==
    /\ last.op = "finalize"
    /\ fin = 2
    /\ last.err = "none"
    /\ IsAveraged(m)
    /\ m.time >= 2
    /\ \E k \in WeightKeys(m) : Value(m, k).d > 1

\* C5: update(x, y) of a binary model with y neither True nor False raises
\* ValueError and leaves the weight store as it was.
C5_InvalidLabelRejected ==
    (last.op = "update" /\ IsBinary(m) /\ last.y \notin {"True", "False"}) =>
        /\ last.err = "ValueError"
        /\ m.weights = last.pre.weights

\* C6: during training and after finalize(), inference on a feature vector
\* that holds a feature the model has never seen raises nothing and returns
\* what it returns on the vector without that feature.
C6_UnknownFeatureScoresZero ==
    \A x \in XS :
        IF IsBinary(m)
        THEN LET r1 == predict(m, x, <<>>)
                 r2 == predict(m, Append(x, Unknown), <<>>)
             IN  r2.err = "none" /\ r2.ret = r1.ret
        ELSE LET r1 == scores(m, x)
                 r2 == scores(m, Append(x, Unknown))
             IN  r1.err = "none" => (r2.err = "none" /\ r2.ret = r1.ret)

C9_FitOneMistakeDriven ==
    (last.op = "fit_one" /\ last.err = "none"
        /\ (IsBinary(m) => last.y \in {"True", "False"})) =>
        LET pre == last.pre
            X == Range(last.x)
            y == last.y
            yhat == last.ret
            delta(k) ==
                IF yhat = y \/ k[1] \notin X THEN 0
                ELSE IF IsBinary(m) THEN Sign(y)
                ELSE (IF k[2] = y THEN 1 ELSE 0) - (IF k[2] = yhat THEN 1 ELSE 0)
        IN  /\ IF IsBinary(m)
               THEN yhat = Bool(ScoreOf(pre, X, "True").n >= 0)
               ELSE /\ m.classes = pre.classes \cup {y}
                    /\ yhat \in m.classes
                    /\ \A c \in m.classes :
                          FracLeq(ScoreOf(pre, X, c), ScoreOf(pre, X, yhat))
            /\ \A k \in AllKeys(m) : Value(m, k) = Plus(Value(pre, k), Frac(delta(k)))

\* a mistake of a multiclass model that already holds weights
C9_Witness ==
    /\ last.op = "fit_one"
    /\ last.err = "none"
    /\ ~IsBinary(m)
    /\ last.ret # last.y
    /\ last.x # <<>>
    /\ \E k \in WeightKeys(last.pre) : Value(last.pre, k) # Zero

\* C10: predict(x) of a multiclass model returns a class of maximal score,
\* and the class it returns does not depend on the order in which the class
\* set is iterated.
C10_PredictDeterministic ==
    ~IsBinary(m) =>
        \A x \in XS : \A co1, co2 \in Orders(m.classes) :
            LET r1 == predict(m, x, co1)
                r2 == predict(m, x, co2)
            IN  r1.err = "none" =>
                   /\ \A c \in m.classes :
                         FracLeq(ScoreOf(m, Range(x), c), ScoreOf(m, Range(x), r1.ret))
                   /\ r2.ret = r1.ret

\* C8: greedy decoding with order = 1 and a transition function that
\* returns no features gives the labels of order-0 decoding, for every
\* model state and token sequence.
C8_GreedyWithoutTransitionsIsOrder0 ==
    IsSequence(m) =>
        \A xx \in XXS : \A co \in Orders(m.classes) :
            LET g == SequencePerceptron_predict([m EXCEPT !.order = 1], xx, co)
                z == SequencePerceptron_predict([m EXCEPT !.order = 0], xx, co)
            IN  z.err = "none" => (g.err = "none" /\ g.ret = z.ret)

---------------------------------------------------------------------------
(* Claims about Classifier.fit *)

\* C4: in the averaged classes time starts at 0 and is the number of
\* fit_one calls that have returned, in whatever epoch; when fit calls
\* finalize, time is epochs * len(data), and that is the number every
\* summed weight is divided by.
C4_ClockCountsInstances ==
    /\ m.time = fitted
    /\ (pc = "instance" /\ idx <= Len(data) + 1) =>
           fitted = (epoch - 1) * Len(data) + (idx - 1)
    /\ (last.op = "finalize") =>
           /\ last.pre.time = epochs * Len(data)
           /\ \A k \in WeightKeys(m) :
                 Entry(m, k).weight
                    = TrueDiv(Entry(m, k).summed_weight, epochs * Len(data))

\* a run of two epochs over two instances that ends with a non-integer average
C4_Witness ==
    /\ pc = "done"
    /\ epochs = 2
    /\ Len(data) = 2
    /\ m.time = 4
    /\ \E k \in WeightKeys(m) : Value(m, k).d > 1

---------------------------------------------------------------------------
(* Claims about the averaged and the plain binary perceptron side by side *)

\* C11: after every fit_one(x, y) call with a bool y made on a new
\* BinaryAveragedPerceptron and on a new BinaryPerceptron, and before
\* finalize(), both calls returned the same yhat without raising, both
\* stores hold the same features, and the weight each LazyWeight holds is
\* the int the plain model holds for that feature.
C11_AveragingDoesNotInfluenceTraining ==
    (fin = 0) =>
        /\ last.op = plast.op
        /\ last.err = "none" /\ plast.err = "none"
        /\ last.ret = plast.ret
        /\ DOMAIN m.weights = DOMAIN plain.weights
        /\ \A f \in Features : Value(m, <<f>>) = Value(plain, <<f>>)

\* two mistakes in a row, after which the running sum of a weight is not
\* time * weight: its average differs from the value training reads
C11_Witness ==
    /\ fin = 0
    /\ calls = 2
    /\ last.op = "fit_one"
    /\ last.ret # last.y
    /\ last.pre.weights # BinaryAveragedPerceptron.weights
    /\ \E f \in DOMAIN m.weights :
          /\ m.weights[f].weight # Zero
          /\ m.weights[f].summed_weight # Times(m.time, m.weights[f].weight)

=============================================================================
